---- MODULE Spec2Model ----
(***************************************************************************)
(* Model of the trial loop of bayesian_backend/src/optimizer.py:           *)
(* run_optimization (create_study, ledger reset, study.optimize, best      *)
(* lookup, contour export) and objective (suggest, simulate, score,        *)
(* ledger read/rewrite, artifact write, exception handler).                *)
(*                                                                         *)
(* Files are modelled by their contents: optimization_history.csv is the   *)
(* sequence of its data rows (the header line is implied), the per-trial   *)
(* artifacts are the set of their file names.  The Optuna storage is the   *)
(* sequence of its trials; it outlives the process only when DATABASE_URL  *)
(* names a database.                                                       *)
(*                                                                         *)
(* A second specification, FnSpec, follows one evaluation through          *)
(* run_simulation (matlab_interface.py) and compute_loss                   *)
(* (loss_function.py), from the arrays the engine hands back.              *)
(***************************************************************************)
EXTENDS Integers, Sequences, FiniteSets, TLC

\* ---------------------------------------------------------------- bounds
\* largest n_trials passed to run_optimization
MaxTrials == 2
\* calls of run_optimization under the one study name
MaxRuns == 2
\* finite losses are 0..MaxLoss
MaxLoss == 1
\* trials requested over all runs together
MaxTotal == 3
\* longest array the engine hands back
MaxLen == 3

\* ------------------------------------------------------------ value space
\* Gains in units of 1e-5, inside the bounds of suggest_float.
KCs == {10004, 30000}
KIs == {1000}
Losses == 0..MaxLoss
Inf == MaxLoss + 1          \* float("inf"): above every finite loss
NoValue == 0 - 1            \* a trial that has no value yet

\* f"{x:.4f}": the gain rounded to four decimals (units of 1e-4).
Fmt4(x) == (x + 5) \div 10

\* Name of the per-trial artifact file.
simulation_filename(KC, KI, number) == <<Fmt4(KC), Fmt4(KI), number>>

\* One row of optimization_history.csv.
new_row(number, KC, KI, loss) ==
    [Trial |-> number, KC |-> KC, KI |-> KI, Loss |-> loss]

VARIABLES
    pc,            \* position of the process
    persistent,    \* os.getenv("DATABASE_URL") names a database
    study,         \* trials held by the Optuna storage
    ledger,        \* rows of optimization_history.csv
    artifacts,     \* names of the per-trial artifact files
    n_trials,      \* budget of the current run
    done,          \* trials finished by study.optimize in the current run
    runs,          \* calls of run_optimization so far
    loss,          \* objective's local: value returned by compute_loss
    results_df,    \* objective's local: frame read at line 75 plus new_row
    exc,           \* the exception objective's handler caught in this trial
    err,           \* the exception that left run_optimization
    result,        \* the dictionary run_optimization returned
    asked,         \* trials requested over all runs so far
    ledgerAtStart, \* history: the ledger when run_optimization was called
    fpc,           \* position of one evaluation: input, simulated, scored
    raw,           \* the engine's arrays: tout, ActualSimOut, SetpointSimOut
    trimmed,       \* run_simulation's frame before the warm-up filter
    df,            \* the frame run_simulation returns
    loss_out       \* the value compute_loss returns

loopvars == <<pc, persistent, study, ledger, artifacts, n_trials, done, runs,
              loss, results_df, exc, err, result, asked, ledgerAtStart>>

simvars == <<fpc, raw, trimmed, df, loss_out>>

vars == <<loopvars, simvars>>

NoResult == [KC |-> 0, KI |-> 0, best_loss |-> NoValue]

\* ------------------------------------------------------- Optuna's storage
\* storage=os.getenv("DATABASE_URL"), load_if_exists=True: a database keeps
\* the trials of earlier runs, the in-memory storage starts empty.
create_study(s, db) == IF db THEN s ELSE << >>

\* trial.number and the two suggest_float calls: a new RUNNING trial.
ask(s, KC, KI) ==
    Append(s, [number |-> Len(s), KC |-> KC, KI |-> KI,
               state |-> "RUNNING", value |-> NoValue])

\* What objective hands back to study.optimize.
objective_return(v) == [kind |-> "return", value |-> v]

\* A handler that lets the exception go.
objective_reraise(e) == [kind |-> "raise", value |-> Inf]

\* except Exception: log and return float("inf").
objective_except(e) == [kind |-> "return", value |-> Inf]

\* study.optimize finishing a trial: a returned float completes the trial,
\* an exception that leaves objective fails it.
tell(s, out) ==
    [s EXCEPT ![Len(s)] =
        IF out.kind = "return"
        THEN [@ EXCEPT !.state = "COMPLETE", !.value = out.value]
        ELSE [@ EXCEPT !.state = "FAIL"]]

Completed(s) == {i \in 1..Len(s) : s[i].state = "COMPLETE"}

\* A best lookup that takes any COMPLETE trial.
AnyCompleted(s) == Completed(s)

\* study.best_trial: a COMPLETE trial of minimal value.
BestTrials(s) ==
    {i \in Completed(s) : \A j \in Completed(s) : s[i].value <= s[j].value}

\* ------------------------------------------- run_simulation, compute_loss
\* df.filter(pl.col("Time") >= 7000)
WarmUp == 7000

\* Sample times and signal values the engine may hand back.
Times == {6990, 7000, 7010, 7030}
Signals == {0, 1}

SeqsUpTo(S, n) == UNION {[1..k -> S] : k \in 0..n}

EmptyFrame == [Time |-> << >>, Actual |-> << >>, Setpoint |-> << >>]

\* min(len(actual_data), len(setpoint_data), len(time_data))
min_length(r) ==
    LET a == Len(r.ActualSimOut)
        b == Len(r.SetpointSimOut)
        c == Len(r.tout)
        ab == IF a <= b THEN a ELSE b
    IN  IF ab <= c THEN ab ELSE c

\* The three arrays cut to min_length and put into one frame.
trim(r) ==
    [Time     |-> SubSeq(r.tout, 1, min_length(r)),
     Actual   |-> SubSeq(r.ActualSimOut, 1, min_length(r)),
     Setpoint |-> SubSeq(r.SetpointSimOut, 1, min_length(r))]

RECURSIVE keep_gt(_, _)
keep_gt(col, time) ==
    IF col = << >> \/ time = << >> THEN << >>
    ELSE (IF Head(time) > WarmUp THEN <<Head(col)>> ELSE << >>)
         \o keep_gt(Tail(col), Tail(time))

\* The entries of a column whose row passes Time >= 7000.
RECURSIVE keep(_, _)
keep(col, time) ==
    IF col = << >> \/ time = << >> THEN << >>
    ELSE (IF Head(time) >= WarmUp THEN <<Head(col)>> ELSE << >>)
         \o keep(Tail(col), Tail(time))

\* A filter that also drops the rows at Time = 7000.
warmup_filter_strict(d) ==
    [Time     |-> keep_gt(d.Time, d.Time),
     Actual   |-> keep_gt(d.Actual, d.Time),
     Setpoint |-> keep_gt(d.Setpoint, d.Time)]

\* df.filter(pl.col("Time") >= 7000)
warmup_filter(d) ==
    [Time     |-> keep(d.Time, d.Time),
     Actual   |-> keep(d.Actual, d.Time),
     Setpoint |-> keep(d.Setpoint, d.Time)]

\* run_simulation, from the engine's arrays to the returned frame.
run_simulation(r) == warmup_filter(trim(r))

Abs(x) == IF x < 0 THEN 0 - x ELSE x

\* np.trapz(y, x): sum of diff(x) * (y[1:] + y[:-1]) / 2.  The sample times
\* are an even number of units apart, so the halves are exact.
RECURSIVE trapz(_, _)
trapz(y, x) ==
    IF Len(x) < 2 THEN 0
    ELSE ((x[2] - x[1]) * (y[2] + y[1])) \div 2 + trapz(Tail(y), Tail(x))

\* A loss that integrates the signed error.
compute_loss_signed(d) ==
    trapz([i \in 1..Len(d.Time) |-> d.Actual[i] - d.Setpoint[i]], d.Time)

\* compute_loss: the integral of |Actual - Setpoint| over Time.
compute_loss(d) ==
    trapz([i \in 1..Len(d.Time) |-> Abs(d.Actual[i] - d.Setpoint[i])], d.Time)

\* ----------------------------------------------------------------- start
LoopInit ==
    /\ pc = "idle"
    /\ persistent \in BOOLEAN
    /\ study = << >>
    /\ ledger = << >>
    /\ artifacts = {}
    /\ n_trials = 0
    /\ done = 0
    /\ runs = 0
    /\ loss = NoValue
    /\ results_df = << >>
    /\ exc = "none"
    /\ err = "none"
    /\ result = NoResult
    /\ asked = 0
    /\ ledgerAtStart = << >>

\* No evaluation is being followed.
SimIdle ==
    /\ fpc = "off"
    /\ raw = [tout |-> << >>, ActualSimOut |-> << >>, SetpointSimOut |-> << >>]
    /\ trimmed = EmptyFrame
    /\ df = EmptyFrame
    /\ loss_out = 0

Init == LoopInit /\ SimIdle

Stopped == pc \in {"idle", "returned", "raised", "crashed"}

\* run_optimization, lines 132-148: open the study, write an empty ledger.
StartRun ==
    /\ Stopped
    /\ runs < MaxRuns
    /\ \E n \in 0..MaxTrials :
         /\ asked + n <= MaxTotal
         /\ n_trials' = n
         /\ asked' = asked + n
    /\ runs' = runs + 1
    /\ study' = create_study(study, persistent)
    /\ ledgerAtStart' = ledger
    /\ ledger' = << >>
    /\ done' = 0
    /\ loss' = NoValue
    /\ results_df' = << >>
    /\ exc' = "none"
    /\ err' = "none"
    /\ result' = NoResult
    /\ pc' = "ask"
    /\ UNCHANGED <<persistent, artifacts>>
    /\ UNCHANGED simvars

\* study.optimize, line 158, and objective lines 41-42: the next trial is
\* created and its parameters proposed.
Ask ==
    /\ pc = "ask"
    /\ done < n_trials
    /\ \E KC \in KCs, KI \in KIs : study' = ask(study, KC, KI)
    /\ exc' = "none"
    /\ loss' = NoValue
    /\ results_df' = << >>
    /\ pc' = "simulate"
    /\ UNCHANGED <<persistent, ledger, artifacts, n_trials, done, runs,
                   err, result, asked, ledgerAtStart>>
    /\ UNCHANGED simvars

\* The trial ends with what objective handed back.
Finish(out, e) ==
    /\ study' = tell(study, out)
    /\ exc' = e
    /\ done' = done + 1
    /\ loss' = NoValue
    /\ results_df' = << >>
    /\ IF out.kind = "return"
       THEN pc' = "ask" /\ err' = err
       ELSE pc' = "raised" /\ err' = "objective"

\* objective lines 50-62: run_simulation and compute_loss; either raises
\* (matlab_interface.py 111-115, loss_function.py 27-29) or a loss comes back.
Evaluate ==
    /\ pc = "simulate"
    /\ \/ \E e \in {"sim", "loss"} :
            Finish(objective_except(e), e)
       \/ \E l \in Losses :
            /\ loss' = l
            /\ pc' = "read"
            /\ UNCHANGED <<study, exc, done, err, results_df>>
    /\ UNCHANGED <<persistent, ledger, artifacts, n_trials, runs,
                   result, asked, ledgerAtStart>>
    /\ UNCHANGED simvars

\* objective lines 72-89, first half: read the ledger, append new_row, open
\* the file for writing (write_csv truncates it).
ReadLedger ==
    /\ pc = "read"
    /\ LET t == study[Len(study)] IN
       \/ \E e \in {"read", "write"} :
            /\ Finish(objective_except(e), e)
            /\ UNCHANGED ledger
       \/ /\ results_df' = Append(ledger, new_row(t.number, t.KC, t.KI, loss))
          /\ ledger' = << >>
          /\ pc' = "write"
          /\ UNCHANGED <<study, exc, done, err, loss>>
    /\ UNCHANGED <<persistent, artifacts, n_trials, runs,
                   result, asked, ledgerAtStart>>
    /\ UNCHANGED simvars

\* objective line 89, second half: the rows reach the file.
WriteLedger ==
    /\ pc = "write"
    /\ ledger' = results_df
    /\ pc' = "artifact"
    /\ UNCHANGED <<persistent, study, artifacts, n_trials, done, runs, loss,
                   results_df, exc, err, result, asked, ledgerAtStart>>
    /\ UNCHANGED simvars

\* objective lines 95-100: write the artifact and return the loss.
WriteArtifact ==
    /\ pc = "artifact"
    /\ LET t == study[Len(study)] IN
       \/ /\ Finish(objective_except("artifact"), "artifact")
          /\ UNCHANGED artifacts
       \/ /\ artifacts' =
                artifacts \cup {simulation_filename(t.KC, t.KI, t.number)}
          /\ Finish(objective_return(loss), "none")
    /\ UNCHANGED <<persistent, ledger, n_trials, runs,
                   result, asked, ledgerAtStart>>
    /\ UNCHANGED simvars

\* run_optimization lines 158-163: the budget is used up; best_params and
\* best_value are read, and raise when the study has no COMPLETE trial.
BestLookup ==
    /\ pc = "ask"
    /\ done >= n_trials
    /\ IF Completed(study) = {}
       THEN /\ pc' = "raised"
            /\ err' = "NoCompletedTrials"
            /\ result' = result
       ELSE /\ \E i \in BestTrials(study), j \in BestTrials(study) :
                 result' = [KC |-> study[i].KC, KI |-> study[i].KI,
                            best_loss |-> study[j].value]
            /\ pc' = "export"
            /\ err' = err
    /\ exc' = "none"
    /\ UNCHANGED <<persistent, study, ledger, artifacts, n_trials, done, runs,
                   loss, results_df, asked, ledgerAtStart>>
    /\ UNCHANGED simvars

\* run_optimization lines 165-169: plot_contour, show, write_html, return.
ExportContour ==
    /\ pc = "export"
    /\ \E ok \in BOOLEAN :
         IF ok THEN pc' = "returned" /\ err' = err
               ELSE pc' = "raised" /\ err' = "export"
    /\ UNCHANGED <<persistent, study, ledger, artifacts, n_trials, done, runs,
                   loss, results_df, exc, result, asked, ledgerAtStart>>
    /\ UNCHANGED simvars

\* The process dies and its memory is gone.  A write of the ledger in
\* progress leaves some prefix of the rows; the trial in flight stays
\* RUNNING in the storage.
Crash ==
    /\ ~Stopped
    /\ pc' = "crashed"
    /\ IF pc = "write"
       THEN \E k \in 0..Len(results_df) : ledger' = SubSeq(results_df, 1, k)
       ELSE ledger' = ledger
    /\ loss' = NoValue
    /\ results_df' = << >>
    /\ exc' = "none"
    /\ UNCHANGED <<persistent, study, artifacts, n_trials, done, runs,
                   err, result, asked, ledgerAtStart>>
    /\ UNCHANGED simvars

Next ==
    \/ StartRun
    \/ Ask
    \/ Evaluate
    \/ ReadLedger
    \/ WriteLedger
    \/ WriteArtifact
    \/ BestLookup
    \/ ExportContour
    \/ Crash

Spec == Init /\ [][Next]_vars

\* ------------------------------------------------ one evaluation, followed
\* The engine has handed back its three arrays, of any lengths.
FnInit ==
    /\ LoopInit
    /\ fpc = "input"
    /\ raw \in [tout : SeqsUpTo(Times, MaxLen),
                ActualSimOut : SeqsUpTo(Signals, MaxLen),
                SetpointSimOut : SeqsUpTo(Signals, MaxLen)]
    /\ trimmed = EmptyFrame
    /\ df = EmptyFrame
    /\ loss_out = 0

\* matlab_interface.py lines 89-109: trim, build the frame, filter.
Simulate ==
    /\ fpc = "input"
    /\ trimmed' = trim(raw)
    /\ df' = run_simulation(raw)
    /\ fpc' = "simulated"
    /\ UNCHANGED <<raw, loss_out>>
    /\ UNCHANGED loopvars

\* loss_function.py lines 20-26: the loss of the returned frame.
Score ==
    /\ fpc = "simulated"
    /\ loss_out' = compute_loss(df)
    /\ fpc' = "scored"
    /\ UNCHANGED <<raw, trimmed, df>>
    /\ UNCHANGED loopvars

FnNext ==
    \/ Simulate
    \/ Score

FnSpec == FnInit /\ [][FnNext]_vars

\* ------------------------------------------------------------ properties
IsPrefix(a, b) == Len(a) <= Len(b) /\ SubSeq(b, 1, Len(a)) = a

\* The run has left the trial loop.
LoopOver == pc \in {"export", "returned", "raised"}

\* Indices, in the storage, of the trials the current run has finished.
RunTrials == {i \in 1..Len(study) : i > Len(study) - done /\ i <= Len(study)}

\* The rows the file holds once no write is in progress.
Committed ==
    IF pc = "write" THEN SubSeq(results_df, 1, Len(results_df) - 1)
    ELSE ledger

\* C1: a run of M trials over a ledger of N >= 1 rows leaves N+M rows, the
\* first N being the rows that were there before the call.
C1_ResumeKeepsHistory ==
    (pc = "returned" /\ Len(ledgerAtStart) > 0) =>
        /\ Len(ledger) = Len(ledgerAtStart) + n_trials
        /\ SubSeq(ledger, 1, Len(ledgerAtStart)) = ledgerAtStart

\* C2: the ledger is append-only: no run start and no trial step of a live
\* process removes or changes a row the file held.
C2_AppendOnly ==
    [][(pc # "crashed" /\ pc' \notin {"write", "crashed"})
          => IsPrefix(Committed, ledger')]_vars

\* C3: when the next trial is about to be proposed, every trial the run has
\* finished, completed or failed, has a row in the ledger.
C3_TerminalTrialsRecorded ==
    pc = "ask" =>
        \A i \in RunTrials :
            \E r \in 1..Len(ledger) : ledger[r].Trial = study[i].number

\* C4: a crash, and the restart that follows it, leave in the ledger every
\* row that had been fully written before the crash.
C4_CrashConsistency ==
    [][/\ (pc' = "crashed" => IsPrefix(Committed, ledger'))
       /\ (pc = "crashed" => IsPrefix(ledger, ledger'))]_vars

\* C5: an exception of run_simulation or compute_loss gives the trial the
\* loss +infinity and the loop goes on; no exception of objective leaves the
\* loop, and the loop ends only after n_trials trials.
C5_FailureContained ==
    /\ (exc \in {"sim", "loss"} =>
            /\ pc = "ask"
            /\ study[Len(study)].state = "COMPLETE"
            /\ study[Len(study)].value = Inf)
    /\ err # "objective"
    /\ (LoopOver => done = n_trials)
    /\ (LoopOver => Cardinality(RunTrials) = n_trials)

\* C5 witness: the first trial of a run raised in the simulator and the loop
\* stands at the second.
C5_Witness ==
    /\ exc = "sim"
    /\ pc = "ask"
    /\ done = 1
    /\ n_trials = 2

FiniteTrials == {i \in Completed(study) : study[i].value < Inf}

\* C6: a run that returns while some trial has a finite loss returns the
\* minimal loss and the parameters of a trial that has that loss; the loss
\* is never +infinity.
C6_BestSelection ==
    (pc = "returned" /\ FiniteTrials # {}) =>
        /\ result.best_loss # Inf
        /\ \A i \in Completed(study) : result.best_loss <= study[i].value
        /\ \E i \in FiniteTrials :
              /\ study[i].KC = result.KC
              /\ study[i].KI = result.KI
              /\ study[i].value = result.best_loss

\* C6 witness: a run returned the smaller of two distinct finite losses
\* while a failed trial was in the study as well.
C6_Witness ==
    /\ pc = "returned"
    /\ result.best_loss = 0
    /\ \E i \in Completed(study) : study[i].value = 1
    /\ \E i \in Completed(study) : study[i].value = Inf

AllFailedInRun ==
    /\ n_trials > 0
    /\ done = n_trials
    /\ \A i \in RunTrials : study[i].value = Inf

\* C7: a run all of whose trials failed does not return a result (it ends
\* with an error), and no run returns +infinity as its best loss.
C7_AllFailedIsAnError ==
    pc = "returned" => (~AllFailedInRun /\ result.best_loss # Inf)

\* C8: a run with n_trials = 0 returns no best parameters (it ends with an
\* error), on a new study and on a resumed one.
C8_ZeroBudgetIsAnError ==
    pc = "returned" => n_trials # 0

IsComplete(t) == t.state = "COMPLETE"

\* The proposer's history: the finished trials of the storage, written as
\* the ledger writes its rows.
ProposerHistory ==
    LET h == SelectSeq(study, IsComplete) IN
    [i \in 1..Len(h) |-> new_row(h[i].number, h[i].KC, h[i].KI, h[i].value)]

\* C9: in a restarted run, whenever a proposal is due, the proposer's history
\* is the sequence of rows of the ledger, and it is not empty while the
\* ledger is not.
C9_ProposerFromLedger ==
    (runs >= 2 /\ pc = "ask" /\ done < n_trials) =>
        /\ ProposerHistory = ledger
        /\ (ledger # << >> => ProposerHistory # << >>)

\* C10: the trial ids of the ledger increase strictly in row order, and no
\* two artifact files carry the same trial id.
C10_UniqueIds ==
    /\ \A r \in 1..Len(ledger) : \A q \in 1..Len(ledger) :
          r < q => ledger[r].Trial < ledger[q].Trial
    /\ \A a \in artifacts : \A b \in artifacts : a[3] = b[3] => a = b

\* C11: a run that has left the trial loop has performed exactly n_trials
\* trials, and when it ends it hands the caller a best parameter set or the
\* no-completed-trials failure: no step after the loop ends it otherwise.
C11_EndsWithReport ==
    /\ (LoopOver => done = n_trials)
    /\ (pc = "raised" => err = "NoCompletedTrials")

\* The time axis never steps back.
Monotone(t) == \A i \in 1..Len(t) : \A j \in 1..Len(t) : i < j => t[i] <= t[j]

\* C12: compute_loss returns a loss only for a frame that has at least one
\* row and a non-decreasing Time column; for any other frame it raises.
C12_RejectsEmptyOrUnordered ==
    fpc = "scored" => (Len(df.Time) > 0 /\ Monotone(df.Time))

\* |Actual - Setpoint| at row i of the returned frame.
ErrAt(i) ==
    IF df.Actual[i] >= df.Setpoint[i] THEN df.Actual[i] - df.Setpoint[i]
    ELSE df.Setpoint[i] - df.Actual[i]

\* The area of the trapezoid between rows i and i+1.
Trapezoid(i) == ((df.Time[i + 1] - df.Time[i]) * (ErrAt(i) + ErrAt(i + 1))) \div 2

\* The trapezoids between rows 1..n+1, added up.
RECURSIVE SumTrapezoids(_)
SumTrapezoids(n) == IF n = 0 THEN 0 ELSE SumTrapezoids(n - 1) + Trapezoid(n)

\* C13: on a frame with non-decreasing Time the loss is not negative, is the
\* sum of the trapezoids between neighbouring rows, and is 0 when Actual
\* equals Setpoint at every row.
C13_LossIsTrapezoidalAndNonNegative ==
    (fpc = "scored" /\ Monotone(df.Time)) =>
        /\ loss_out >= 0
        /\ (Len(df.Time) <= 1 => loss_out = 0)
        /\ (Len(df.Time) >= 1 => loss_out = SumTrapezoids(Len(df.Time) - 1))
        /\ ((\A i \in 1..Len(df.Time) : df.Actual[i] = df.Setpoint[i])
               => loss_out = 0)

\* C13 witness: three rows at uneven steps, Actual below Setpoint somewhere,
\* and a positive loss.
C13_Witness ==
    /\ fpc = "scored"
    /\ df.Time = <<7000, 7010, 7030>>
    /\ \E i \in 1..3 : df.Actual[i] < df.Setpoint[i]
    /\ loss_out > 0

\* The common length of the engine's arrays.
CommonLen ==
    CHOOSE m \in {Len(raw.tout), Len(raw.ActualSimOut), Len(raw.SetpointSimOut)} :
        \A n \in {Len(raw.tout), Len(raw.ActualSimOut), Len(raw.SetpointSimOut)} :
            m <= n

\* The aligned rows that are past the warm-up, and the k-th of them.
KeptRows == {i \in 1..CommonLen : raw.tout[i] >= WarmUp}

KthKept(k) == CHOOSE i \in KeptRows : Cardinality({j \in KeptRows : j <= i}) = k

\* C14: before the filter each column is the first L entries of its raw
\* array, L the least of the three lengths; the returned columns have equal
\* length and hold, in order, exactly the aligned rows with Time >= 7000.
C14_AlignedAndFiltered ==
    fpc \in {"simulated", "scored"} =>
        /\ Len(trimmed.Time) = CommonLen
        /\ Len(trimmed.Actual) = CommonLen
        /\ Len(trimmed.Setpoint) = CommonLen
        /\ \A i \in 1..CommonLen :
              /\ trimmed.Time[i] = raw.tout[i]
              /\ trimmed.Actual[i] = raw.ActualSimOut[i]
              /\ trimmed.Setpoint[i] = raw.SetpointSimOut[i]
        /\ Len(df.Time) = Cardinality(KeptRows)
        /\ Len(df.Actual) = Cardinality(KeptRows)
        /\ Len(df.Setpoint) = Cardinality(KeptRows)
        /\ \A k \in 1..Cardinality(KeptRows) :
              /\ df.Time[k] = raw.tout[KthKept(k)]
              /\ df.Actual[k] = raw.ActualSimOut[KthKept(k)]
              /\ df.Setpoint[k] = raw.SetpointSimOut[KthKept(k)]

\* C14 witness: arrays of unequal lengths, a warm-up row dropped between two
\* kept rows, one of them at Time = 7000 exactly.
C14_Witness ==
    /\ fpc = "simulated"
    /\ Len(raw.tout) > Len(raw.ActualSimOut)
    /\ Len(raw.ActualSimOut) # Len(raw.SetpointSimOut)
    /\ CommonLen = 2
    /\ raw.tout[1] < WarmUp
    /\ raw.tout[2] = WarmUp
    /\ Len(df.Time) = 1

\* C15: a trial whose simulation and loss both came back with a finite loss
\* is told to the proposer as COMPLETE with that loss, whatever happens to
\* the ledger and artifact writes that follow.
C15_ScoredTrialCompletes ==
    [][(pc \in {"read", "write", "artifact"} /\ pc' = "ask")
          => /\ study'[Len(study')].state = "COMPLETE"
             /\ study'[Len(study')].value = loss]_vars

\* C16: when a trial has ended, the ledger has a row for it with the finite
\* loss v exactly if objective returned v; in particular no row with a
\* finite loss belongs to a trial whose objective returned +infinity.
C16_LedgerAgreesWithProposer ==
    pc = "ask" =>
        \A i \in RunTrials : \A v \in Losses :
            (\E r \in 1..Len(ledger) :
                 ledger[r].Trial = study[i].number /\ ledger[r].Loss = v)
            <=> study[i].value = v

\* C17: the pair a run returns is a row of the ledger: some row has the
\* returned KC and KI and the returned loss.
C17_ResultBackedByLedger ==
    pc = "returned" =>
        \E r \in 1..Len(ledger) :
            /\ ledger[r].KC = result.KC
            /\ ledger[r].KI = result.KI
            /\ ledger[r].Loss = result.best_loss

====
